---- MODULE Spec2Model ----
(***************************************************************************)
(* Model of the image-to-svg converter.                                    *)
(*   - src/app/api/convert/route.ts : the POST handler (decode, sample,    *)
(*     group by colour key, sort, merge horizontally, serialize, respond)  *)
(*   - src/app/page.tsx             : the Home component (onDrop,          *)
(*     convertToSvg, download button)                                      *)
(***************************************************************************)
EXTENDS Integers, Sequences, FiniteSets, TLC

VARIABLES
    \* ---- route.ts, one POST request ----
    req,        \* the incoming request: [kind, img]
    pc,         \* position of the handler
    canvas,     \* [width, height] of the canvas (route.ts:47)
    sampleRate, \* route.ts:71
    y,          \* outer loop variable of the sampling loop (route.ts:74)
    x,          \* inner loop variable of the sampling loop (route.ts:75)
    colorMap,   \* Map<string, Rect[]> in insertion order: Seq of [color, rects]
    ci,         \* how many entries of colorMap the for-of loop has processed
    sortNoop,   \* history: every rects.sort so far left its array unchanged
    svgPaths,   \* the <rect .../> elements appended so far, in order
    response,   \* the NextResponse.json returned, or NoResponse
    \* ---- page.tsx, the Home component ----
    image,      \* useState<File | null>
    svg,        \* useState<string | null>
    loading,    \* useState(false)
    callPc,     \* position of the one convertToSvg call in flight
    callImage,  \* the `image` captured by that call's closure
    callData,   \* the response that call received
    download    \* the last file the download button produced

rvars == <<req, pc, canvas, sampleRate, y, x, colorMap, ci, sortNoop, svgPaths, response>>
pvars == <<image, svg, loading, callPc, callImage, callData, download>>
vars == <<req, pc, canvas, sampleRate, y, x, colorMap, ci, sortNoop, svgPaths, response,
          image, svg, loading, callPc, callImage, callData, download>>

(***************************************************************************)
(* Bounds of the model                                                     *)
(***************************************************************************)
MaxW == 3
MaxH == 2
MaxPixels == 6
MaxFiles == 2

(***************************************************************************)
(* Program constants                                                       *)
(***************************************************************************)
StrideDivisor == 400

Max(a, b) == IF a > b THEN a ELSE b
Min(a, b) == IF a < b THEN a ELSE b

(***************************************************************************)
(* Pixels and pixel buffers.  A buffer is [w, h, px]: px gives the RGBA    *)
(* bytes of the painted coordinates, every other pixel is <<0,0,0,0>>.     *)
(***************************************************************************)
Transparent == <<0, 0, 0, 0>>
Red == <<255, 0, 0, 255>>
Grey == <<100, 100, 100, 255>>
Palette == {Transparent, Red, Grey}

Coords(w, h) == (0 .. (w - 1)) \X (0 .. (h - 1))

SmallDims == {d \in (1 .. MaxW) \X (1 .. MaxH) : d[1] * d[2] <= MaxPixels}

SmallImages ==
    UNION {{[w |-> d[1], h |-> d[2], px |-> f] : f \in [Coords(d[1], d[2]) -> Palette]}
           : d \in SmallDims}

\* Buffers of at least 800x800 pixels are the ones whose stride exceeds 1.
\* Painted: anchors (0,0), (s,0), (2s,0) of row 0, the anchor (0,s) of the next
\* sampled row, and the pixels (1,0) and (0,1), which the stride steps over.
LargePatterns == {p \in Palette \X Palette \X Palette : p[1] = Red}

Painted(s, p) ==
    (<<0, 0>> :> p[1]) @@ (<<s, 0>> :> p[2]) @@ (<<2 * s, 0>> :> p[3])
    @@ (<<0, s>> :> Red) @@ (<<1, 0>> :> Grey) @@ (<<0, 1>> :> Grey)

LargeImages ==
    {[w |-> 800, h |-> 800, px |-> Painted(2, p)] : p \in LargePatterns}
    \cup {[w |-> 801, h |-> 800,
           px |-> Painted(2, <<Red, Red, Grey>>) @@ (<<798, 0>> :> Red) @@ (<<800, 0>> :> Red)],
          [w |-> 1200, h |-> 1200, px |-> Painted(3, <<Red, Red, Red>>)],
          [w |-> 1200, h |-> 1200, px |-> Painted(3, <<Red, Grey, Red>>)]}

\* One- and two-pixel rows over neighbouring channel values and alphas
GreyLevels == {99, 100, 101, 102, 103}
Alphas == {1, 6, 7, 128, 254}
ColorPixels ==
    {<<v, v, v, 255>> : v \in GreyLevels} \cup {<<255, 0, 0, a>> : a \in Alphas}

ColorImages ==
    {[w |-> 1, h |-> 1, px |-> (<<0, 0>> :> p)] : p \in ColorPixels}
    \cup {[w |-> 2, h |-> 1, px |-> (<<0, 0>> :> p) @@ (<<1, 0>> :> q)]
           : p \in ColorPixels, q \in ColorPixels}

Images == SmallImages \cup LargeImages \cup ColorImages

\* Buffers with no pixels: zero width or zero height
EmptyImages ==
    {[w |-> d[1], h |-> d[2], px |-> <<>>]
     : d \in {e \in (0 .. MaxW) \X (0 .. MaxH) : e[1] * e[2] = 0}}

PixelOf(img, xx, yy) ==
    IF <<xx, yy>> \in DOMAIN img.px THEN img.px[<<xx, yy>>] ELSE Transparent

\* imageData.data[i] of the row-major RGBA byte array (route.ts:54-55)
DataAt(img, i) ==
    LET p == i \div 4
    IN  PixelOf(img, p % img.w, p \div img.w)[(i % 4) + 1]

(***************************************************************************)
(* Colour key (route.ts:86)                                                *)
(***************************************************************************)
\* mutant: Math.floor(c/2)*2
RoundChannelDown(c) == (c \div 2) * 2

\* mutant: halves rounded to the even neighbour
RoundChannelEven(c) ==
    IF c % 2 = 0 THEN c
    ELSE IF (c \div 2) % 2 = 0 THEN (c \div 2) * 2 ELSE ((c \div 2) + 1) * 2

\* Math.round(c/2)*2 for a byte c: Math.round rounds halves up
RoundChannel(c) == ((c + 1) \div 2) * 2

\* Math.round(a*20) with a = byte/255 (route.ts:80): no byte gives a tie
RoundAlpha20(byte) == (40 * byte + 255) \div 510

\* String(n/20) for n in 0..20, as JavaScript prints the number
FormatTwentieths(n) ==
    LET h == 5 * n
        ip == h \div 100
        fr == h % 100
    IN  IF fr = 0 THEN ToString(ip)
        ELSE IF fr % 10 = 0 THEN ToString(ip) \o "." \o ToString(fr \div 10)
        ELSE ToString(ip) \o "." \o ToString(fr \div 10) \o ToString(fr % 10)

ColorKey(r, g, b, byteA) ==
    "rgba(" \o ToString(RoundChannel(r)) \o "," \o ToString(RoundChannel(g)) \o ","
            \o ToString(RoundChannel(b)) \o "," \o FormatTwentieths(RoundAlpha20(byteA)) \o ")"

\* mutant: the transparent-pixel test is missing
SkipNever(byteA) == FALSE

\* the test `a === 0` of route.ts:83, a = byte/255
SkipPixel(byteA) == byteA = 0

(***************************************************************************)
(* Sampling loop (route.ts:70-97)                                          *)
(***************************************************************************)
SampleRateOf(w, h) == Max(1, Min(w, h) \div StrideDivisor)

Idx(xx, yy, w) == (yy * w + xx) * 4

NewCell(xx, yy, s) == [x |-> xx, y |-> yy, width |-> s, height |-> s]

HasColor(cm, color) == \E k \in 1 .. Len(cm) : cm[k].color = color

\* mutant: colorMap.set(colorKey, []) without the colorMap.has test
PushCellReset(cm, color, cell) ==
    IF HasColor(cm, color)
    THEN [k \in 1 .. Len(cm) |->
            IF cm[k].color = color
            THEN [cm[k] EXCEPT !.rects = <<cell>>]
            ELSE cm[k]]
    ELSE Append(cm, [color |-> color, rects |-> <<cell>>])

\* mutant: unshift instead of push
PushCellFront(cm, color, cell) ==
    IF HasColor(cm, color)
    THEN [k \in 1 .. Len(cm) |->
            IF cm[k].color = color
            THEN [cm[k] EXCEPT !.rects = <<cell>> \o @]
            ELSE cm[k]]
    ELSE Append(cm, [color |-> color, rects |-> <<cell>>])

\* colorMap.has / set / get(...).push of route.ts:88-95
PushCell(cm, color, cell) ==
    IF HasColor(cm, color)
    THEN [k \in 1 .. Len(cm) |->
            IF cm[k].color = color
            THEN [cm[k] EXCEPT !.rects = Append(@, cell)]
            ELSE cm[k]]
    ELSE Append(cm, [color |-> color, rects |-> <<cell>>])

\* one iteration of the inner loop body (route.ts:76-95)
SampleAt(img, cm, xx, yy, s) ==
    LET i == Idx(xx, yy, img.w)
        r == DataAt(img, i)
        g == DataAt(img, i + 1)
        b == DataAt(img, i + 2)
        byteA == DataAt(img, i + 3)
    IN  IF SkipPixel(byteA) THEN cm
        ELSE PushCell(cm, ColorKey(r, g, b, byteA), NewCell(xx, yy, s))

(***************************************************************************)
(* Sort and merge (route.ts:100-134)                                       *)
(***************************************************************************)
\* comparator of route.ts:131 is negative
Before(a, b) == IF a.y = b.y THEN a.x < b.x ELSE a.y < b.y

RECURSIVE InsertSorted(_, _)
InsertSorted(sorted, r) ==
    IF sorted = <<>> THEN <<r>>
    ELSE LET last == sorted[Len(sorted)]
         IN  IF Before(r, last)
             THEN Append(InsertSorted(SubSeq(sorted, 1, Len(sorted) - 1), r), last)
             ELSE Append(sorted, r)

\* rects.sort(...) : a stable sort by (y, x)
RECURSIVE SortFrom(_, _, _)
SortFrom(rects, k, acc) ==
    IF k > Len(rects) THEN acc
    ELSE SortFrom(rects, k + 1, InsertSorted(acc, rects[k]))

SortRects(rects) == SortFrom(rects, 1, <<>>)

\* mutant: the adjacency test rect.x === current.x + current.width is missing
CanMergeSameRow(current, rect) ==
    /\ rect.y = current.y
    /\ rect.height = current.height

\* the merge test of route.ts:110-111
CanMerge(current, rect) ==
    /\ rect.y = current.y
    /\ rect.height = current.height
    /\ rect.x = current.x + current.width

RECURSIVE MergeFrom(_, _, _, _)
MergeFrom(rects, k, current, result) ==
    IF k > Len(rects) THEN Append(result, current)
    ELSE IF CanMerge(current, rects[k])
         THEN MergeFrom(rects, k + 1,
                        [current EXCEPT !.width = @ + rects[k].width], result)
         ELSE MergeFrom(rects, k + 1, rects[k], Append(result, current))

\* mutant: a cell right below the current rectangle is merged into it as well
RECURSIVE MergeBothAxesFrom(_, _, _, _)
MergeBothAxesFrom(rects, k, current, result) ==
    IF k > Len(rects) THEN Append(result, current)
    ELSE IF CanMerge(current, rects[k])
         THEN MergeBothAxesFrom(rects, k + 1,
                                [current EXCEPT !.width = @ + rects[k].width], result)
         ELSE IF /\ rects[k].x = current.x
                 /\ rects[k].width = current.width
                 /\ rects[k].y = current.y + current.height
         THEN MergeBothAxesFrom(rects, k + 1,
                                [current EXCEPT !.height = @ + rects[k].height], result)
         ELSE MergeBothAxesFrom(rects, k + 1, rects[k], Append(result, current))

optimizeRectsBothAxes(rects) ==
    IF Len(rects) <= 1 THEN rects
    ELSE MergeBothAxesFrom(rects, 2, rects[1], <<>>)

optimizeRects(rects) ==
    IF Len(rects) <= 1 THEN rects
    ELSE MergeFrom(rects, 2, rects[1], <<>>)

\* <rect x y width height fill /> of route.ts:138, one per merged rectangle
RectElements(color, rects) ==
    [k \in 1 .. Len(rects) |->
        [x |-> rects[k].x, y |-> rects[k].y, width |-> rects[k].width,
         height |-> rects[k].height, fill |-> color]]

\* the document of route.ts:143-146
Document(cv, paths) ==
    [width |-> cv.width, height |-> cv.height,
     viewBox |-> <<0, 0, cv.width, cv.height>>, rects |-> paths]

(***************************************************************************)
(* The POST handler                                                        *)
(***************************************************************************)
NoResponse == [status |-> 0]
NoCanvas == [width |-> 0, height |-> 0]
NoImage == [w |-> 0, h |-> 0, px |-> <<>>]

BadRequest == [status |-> 400, error |-> "No image file provided"]
ServerError == [status |-> 500, error |-> "Failed to convert image"]
Success(doc) == [status |-> 200, svg |-> doc]

Requests(imgs) ==
    {[kind |-> k, img |-> NoImage] : k \in {"badform", "nofile", "corrupt"}}
    \cup {[kind |-> "image", img |-> i] : i \in imgs}

RouteInit(imgs) ==
    /\ req \in Requests(imgs)
    /\ pc = "start"
    /\ canvas = NoCanvas
    /\ sampleRate = 0
    /\ y = 0
    /\ x = 0
    /\ colorMap = <<>>
    /\ ci = 0
    /\ sortNoop = TRUE
    /\ svgPaths = <<>>
    /\ response = NoResponse

\* mutant: the missing-file branch does not return
ParseFormNoReturn ==
    /\ pc = "start"
    /\ IF req.kind = "badform"
       THEN /\ pc' = "done"
            /\ response' = ServerError
       ELSE /\ pc' = "decode"
            /\ UNCHANGED response
    /\ UNCHANGED <<req, canvas, sampleRate, y, x, colorMap, ci, sortNoop, svgPaths>>
    /\ UNCHANGED pvars

\* route.ts:7-15: formData() rejects, or the file is missing, or it is there
ParseForm ==
    /\ pc = "start"
    /\ IF req.kind = "badform"
       THEN /\ pc' = "done"
            /\ response' = ServerError
       ELSE IF req.kind = "nofile"
       THEN /\ pc' = "done"
            /\ response' = BadRequest
       ELSE /\ pc' = "decode"
            /\ UNCHANGED response
    /\ UNCHANGED <<req, canvas, sampleRate, y, x, colorMap, ci, sortNoop, svgPaths>>
    /\ UNCHANGED pvars

\* route.ts:18-71: sharp / loadImage / getImageData throw on an undecodable
\* upload; otherwise the canvas holds the decoded buffer
Decode ==
    /\ pc = "decode"
    /\ IF req.kind = "corrupt"
       THEN /\ pc' = "done"
            /\ response' = ServerError
            /\ UNCHANGED <<canvas, sampleRate>>
       ELSE /\ pc' = "scan"
            /\ canvas' = [width |-> req.img.w, height |-> req.img.h]
            /\ sampleRate' = SampleRateOf(req.img.w, req.img.h)
            /\ UNCHANGED response
    /\ UNCHANGED <<req, y, x, colorMap, ci, sortNoop, svgPaths>>
    /\ UNCHANGED pvars

\* route.ts:75-96: one iteration of the inner loop
Sample ==
    /\ pc = "scan"
    /\ y < canvas.height
    /\ x < canvas.width
    /\ colorMap' = SampleAt(req.img, colorMap, x, y, sampleRate)
    /\ x' = x + sampleRate
    /\ UNCHANGED <<req, pc, canvas, sampleRate, y, ci, sortNoop, svgPaths, response>>
    /\ UNCHANGED pvars

\* route.ts:74-75: the inner loop ends, the outer loop steps to the next row
RowEnd ==
    /\ pc = "scan"
    /\ y < canvas.height
    /\ ~(x < canvas.width)
    /\ y' = y + sampleRate
    /\ x' = 0
    /\ UNCHANGED <<req, pc, canvas, sampleRate, colorMap, ci, sortNoop, svgPaths, response>>
    /\ UNCHANGED pvars

\* route.ts:74: the loop condition fails
ScanEnd ==
    /\ pc = "scan"
    /\ ~(y < canvas.height)
    /\ pc' = "group"
    /\ UNCHANGED <<req, canvas, sampleRate, y, x, colorMap, ci, sortNoop, svgPaths, response>>
    /\ UNCHANGED pvars

\* route.ts:129-140: one iteration of the for-of loop over colorMap.entries()
ProcessColor ==
    /\ pc = "group"
    /\ ci < Len(colorMap)
    /\ LET entry == colorMap[ci + 1]
           sorted == SortRects(entry.rects)
           optimizedRects == optimizeRects(sorted)
       IN  /\ colorMap' = [colorMap EXCEPT ![ci + 1].rects = sorted]
           /\ sortNoop' = (sortNoop /\ sorted = entry.rects)
           /\ svgPaths' = svgPaths \o RectElements(entry.color, optimizedRects)
    /\ ci' = ci + 1
    /\ UNCHANGED <<req, pc, canvas, sampleRate, y, x, response>>
    /\ UNCHANGED pvars

\* route.ts:143-150
Respond ==
    /\ pc = "group"
    /\ ci = Len(colorMap)
    /\ response' = Success(Document(canvas, svgPaths))
    /\ pc' = "done"
    /\ UNCHANGED <<req, canvas, sampleRate, y, x, colorMap, ci, sortNoop, svgPaths>>
    /\ UNCHANGED pvars

RouteNext == ParseForm \/ Decode \/ Sample \/ RowEnd \/ ScanEnd \/ ProcessColor \/ Respond

RouteIdle ==
    /\ req = [kind |-> "nofile", img |-> NoImage]
    /\ pc = "start"
    /\ canvas = NoCanvas
    /\ sampleRate = 0
    /\ y = 0
    /\ x = 0
    /\ colorMap = <<>>
    /\ ci = 0
    /\ sortNoop = TRUE
    /\ svgPaths = <<>>
    /\ response = NoResponse

(***************************************************************************)
(* The Home component (page.tsx).  Files are 1..MaxFiles, 0 stands for     *)
(* no file; SvgOf(f) is the document the endpoint returns for file f.         *)
(***************************************************************************)
Files == 1 .. MaxFiles
SvgOf(f) == [of |-> f]
NoSvg == [of |-> 0]

PageIdle ==
    /\ image = 0
    /\ svg = NoSvg
    /\ loading = FALSE
    /\ callPc = "idle"
    /\ callImage = 0
    /\ callData = NoSvg
    /\ download = <<0, NoSvg>>

\* page.tsx:13-19, for an accepted file (with none accepted nothing changes)
onDrop(file) ==
    /\ image' = file
    /\ svg' = NoSvg
    /\ UNCHANGED <<loading, callPc, callImage, callData, download>>
    /\ UNCHANGED rvars

\* page.tsx:84-91: the button is rendered when image is set and is disabled
\* while loading (page.tsx:166, 195-198); the call captures `image`
convertToSvg ==
    /\ image # 0
    /\ ~loading
    /\ loading' = TRUE
    /\ callImage' = image
    /\ callPc' = "delay"
    /\ UNCHANGED <<image, svg, callData, download>>
    /\ UNCHANGED rvars

\* page.tsx:91-99: the delay elapses, the captured image is posted
SendRequest ==
    /\ callPc = "delay"
    /\ callPc' = "fetch"
    /\ UNCHANGED <<image, svg, loading, callImage, callData, download>>
    /\ UNCHANGED rvars

\* page.tsx:96-103: the response is ok and its JSON is being read
ResponseOk ==
    /\ callPc = "fetch"
    /\ callData' = SvgOf(callImage)
    /\ callPc' = "json"
    /\ UNCHANGED <<image, svg, loading, callImage, download>>
    /\ UNCHANGED rvars

\* page.tsx:101, 105-109: fetch rejects or the response is not ok
ResponseFailed ==
    /\ callPc = "fetch"
    /\ loading' = FALSE
    /\ callPc' = "idle"
    /\ UNCHANGED <<image, svg, callImage, callData, download>>
    /\ UNCHANGED rvars

\* page.tsx:103-109: setSvg(data.svg), then finally setLoading(false)
SetResult ==
    /\ callPc = "json"
    /\ svg' = callData
    /\ loading' = FALSE
    /\ callPc' = "idle"
    /\ UNCHANGED <<image, callImage, callData, download>>
    /\ UNCHANGED rvars

\* page.tsx:210-227: rendered when svg is set; names the file after `image`
Download ==
    /\ svg # NoSvg
    /\ download' = <<image, svg>>
    /\ UNCHANGED <<image, svg, loading, callPc, callImage, callData>>
    /\ UNCHANGED rvars

PageNext ==
    \/ \E file \in Files : onDrop(file)
    \/ convertToSvg
    \/ SendRequest
    \/ ResponseOk
    \/ ResponseFailed
    \/ SetResult
    \/ Download

Init == RouteInit(Images) /\ PageIdle

Next == RouteNext

Spec == Init /\ [][Next]_vars

\* the conversion applied to any buffer, the empty ones included
InitAnyBuffer == RouteInit(SmallImages \cup EmptyImages) /\ PageIdle

SpecAnyBuffer == InitAnyBuffer /\ [][Next]_vars

\* the page
InitPage == RouteIdle /\ PageIdle

SpecPage == InitPage /\ [][PageNext]_vars

(***************************************************************************)
(* Properties.  They speak of the pixel buffer itself (PixelOf), the       *)
(* stride in use and the document returned.                                *)
(***************************************************************************)
DoneOk == pc = "done" /\ response.status = 200

EmittedRects == response.svg.rects

AlphaAt(sx, sy) == PixelOf(req.img, sx, sy)[4]

\* the grid coordinates 0, s, 2s, ... below n
GridBelow(n, s) == {k * s : k \in 0 .. (((n + s - 1) \div s) - 1)}
SampleXs == GridBelow(canvas.width, sampleRate)
SampleYs == GridBelow(canvas.height, sampleRate)

Covers(r, sx, sy) == r.x <= sx /\ sx < r.x + r.width /\ r.y = sy

KeyAt(sx, sy) ==
    LET p == PixelOf(req.img, sx, sy)
    IN  IF p[4] = 0 THEN "" ELSE ColorKey(p[1], p[2], p[3], p[4])

\* C1: every sampled grid coordinate whose anchor pixel has alpha > 0 lies in
\* exactly one colour bucket, as exactly one cell of it, and is covered by
\* exactly one emitted rectangle, which carries that bucket's colour.
C1_Coverage ==
    DoneOk =>
        \A sy \in SampleYs : \A sx \in SampleXs :
            AlphaAt(sx, sy) > 0 =>
                LET buckets == {i \in 1 .. Len(colorMap) :
                                  \E j \in 1 .. Len(colorMap[i].rects) :
                                      /\ colorMap[i].rects[j].x = sx
                                      /\ colorMap[i].rects[j].y = sy}
                    covering == {k \in 1 .. Len(EmittedRects) :
                                   Covers(EmittedRects[k], sx, sy)}
                IN  /\ Cardinality(buckets) = 1
                    /\ \A i \in buckets :
                         /\ Cardinality({j \in 1 .. Len(colorMap[i].rects) :
                                           /\ colorMap[i].rects[j].x = sx
                                           /\ colorMap[i].rects[j].y = sy}) = 1
                         /\ \A k \in covering : EmittedRects[k].fill = colorMap[i].color
                    /\ Cardinality(covering) = 1

\* a stride-2 conversion with two colours, one of them merged over two cells
C1_Witness ==
    /\ DoneOk
    /\ sampleRate = 2
    /\ Len(colorMap) = 2
    /\ \E k \in 1 .. Len(EmittedRects) : EmittedRects[k].width = 2 * sampleRate

\* the maximal horizontal runs of equal colour key among the sampled cells
RunStarts ==
    {st \in SampleXs \X SampleYs :
        /\ KeyAt(st[1], st[2]) # ""
        /\ (st[1] = 0 \/ KeyAt(st[1] - sampleRate, st[2]) # KeyAt(st[1], st[2]))}

RunCells(sx, sy) ==
    CHOOSE n \in 1 .. Cardinality(SampleXs) :
        /\ \A m \in 0 .. (n - 1) :
             /\ sx + m * sampleRate < canvas.width
             /\ KeyAt(sx + m * sampleRate, sy) = KeyAt(sx, sy)
        /\ \/ ~(sx + n * sampleRate < canvas.width)
           \/ KeyAt(sx + n * sampleRate, sy) # KeyAt(sx, sy)

MaximalRuns ==
    {[x |-> st[1], y |-> st[2], width |-> RunCells(st[1], st[2]) * sampleRate,
      height |-> sampleRate, fill |-> KeyAt(st[1], st[2])] : st \in RunStarts}

\* C2: the rectangles emitted are exactly the maximal runs of horizontally
\* contiguous same-row cells of one colour key, each emitted once, and no two
\* emitted rectangles of one colour on one row are horizontally adjacent.
C2_MaximalRuns ==
    DoneOk =>
        /\ {EmittedRects[k] : k \in 1 .. Len(EmittedRects)} = MaximalRuns
        /\ Len(EmittedRects) = Cardinality(MaximalRuns)
        /\ \A k \in 1 .. Len(EmittedRects) : \A l \in 1 .. Len(EmittedRects) :
             (EmittedRects[k].fill = EmittedRects[l].fill
              /\ EmittedRects[k].y = EmittedRects[l].y)
             => EmittedRects[l].x # EmittedRects[k].x + EmittedRects[k].width

\* at stride 2: the outer colour is split into (0, s) and (2s, s) by a middle
\* cell of another colour, which forms its own single-cell rectangle
C2_Witness ==
    /\ DoneOk
    /\ sampleRate = 2
    /\ \E a \in 1 .. Len(EmittedRects), b \in 1 .. Len(EmittedRects),
          c \in 1 .. Len(EmittedRects) :
         /\ EmittedRects[a].y = 0 /\ EmittedRects[b].y = 0 /\ EmittedRects[c].y = 0
         /\ EmittedRects[a].x = 0 /\ EmittedRects[a].width = sampleRate
         /\ EmittedRects[b].x = sampleRate /\ EmittedRects[b].width = sampleRate
         /\ EmittedRects[c].x = 2 * sampleRate /\ EmittedRects[c].width = sampleRate
         /\ EmittedRects[a].fill = EmittedRects[c].fill
         /\ EmittedRects[a].fill # EmittedRects[b].fill

TwoRed == [w |-> 2, h |-> 1, px |-> (<<0, 0>> :> Red) @@ (<<1, 0>> :> Red)]

EndToEnd(fill) ==
    (pc = "done" /\ req.kind = "image" /\ req.img = TwoRed) =>
        /\ sampleRate = 1
        /\ response =
             Success([width |-> 2, height |-> 1, viewBox |-> <<0, 0, 2, 1>>,
                      rects |-> <<[x |-> 0, y |-> 0, width |-> 2, height |-> 1,
                                   fill |-> fill]>>])

\* C3 as claimed: the 2x1 buffer of two (255,0,0,255) pixels gives one
\* rectangle {0,0,2,1} with fill rgba(254,0,0,1) in a 2x1 document.
C3_AsClaimed == EndToEnd("rgba(254,0,0,1)")

\* C3 amended: the same buffer gives one rectangle {0,0,2,1} in a 2x1
\* document, and its fill is rgba(256,0,0,1): Math.round(127.5) is 128.
C3_EndToEnd == EndToEnd("rgba(256,0,0,1)")

C3_Witness == DoneOk /\ req.img = TwoRed /\ Len(EmittedRects) = 1

GreyRow(u, v) ==
    [w |-> 2, h |-> 1, px |-> (<<0, 0>> :> <<u, u, u, 255>>) @@ (<<1, 0>> :> <<v, v, v, 255>>)]

\* C4 as claimed: the pixels (100,100,100,255) and (101,101,101,255) get the
\* same colour key and land in the same bucket.
C4_AsClaimed ==
    (DoneOk /\ req.img = GreyRow(100, 101)) =>
        /\ Len(colorMap) = 1
        /\ Len(colorMap[1].rects) = 2

\* C4 amended: (100,100,100,255) gets rgba(100,100,100,1) and (101,101,101,255)
\* gets rgba(102,102,102,1), two buckets; it is 101 and 102 that share the key
\* rgba(102,102,102,1).  Two opaque greys u, v share a bucket exactly when they
\* are equal or are an odd value and its successor.
C4_Quantize ==
    DoneOk =>
        /\ req.img = GreyRow(100, 101) =>
             /\ Len(colorMap) = 2
             /\ colorMap[1].color = "rgba(100,100,100,1)"
             /\ colorMap[2].color = "rgba(102,102,102,1)"
        /\ req.img = GreyRow(101, 102) =>
             /\ Len(colorMap) = 1
             /\ colorMap[1].color = "rgba(102,102,102,1)"
             /\ Len(colorMap[1].rects) = 2
        /\ \A u \in GreyLevels, v \in GreyLevels :
             req.img = GreyRow(u, v) =>
                 ((Len(colorMap) = 1)
                  <=> (u = v \/ (Min(u, v) % 2 = 1 /\ Max(u, v) = Min(u, v) + 1)))

C4_Witness == DoneOk /\ req.img = GreyRow(100, 101) /\ Len(colorMap) = 2

AllTransparent == \A c \in DOMAIN req.img.px : req.img.px[c][4] = 0

\* C6: no cell of any bucket stems from a sample of alpha 0, no emitted
\* rectangle covers a sampled coordinate of alpha 0, and a buffer whose pixels
\* all have alpha 0 gives an empty colour map and a document without rectangles.
C6_Transparency ==
    /\ req.kind = "image" =>
         \A i \in 1 .. Len(colorMap) : \A j \in 1 .. Len(colorMap[i].rects) :
             AlphaAt(colorMap[i].rects[j].x, colorMap[i].rects[j].y) # 0
    /\ DoneOk =>
         /\ \A k \in 1 .. Len(EmittedRects) :
              \A sx \in GridBelow(EmittedRects[k].x + EmittedRects[k].width, sampleRate) :
                  sx >= EmittedRects[k].x => AlphaAt(sx, EmittedRects[k].y) # 0
         /\ AllTransparent => (colorMap = <<>> /\ EmittedRects = <<>>)

\* a buffer of several pixels, all of alpha 0, converted to the end
C6_Witness ==
    /\ DoneOk
    /\ AllTransparent
    /\ canvas.width * canvas.height >= 2
    /\ EmittedRects = <<>>

\* C7: every emitted rectangle has height s and a y that is a multiple of s
\* inside the buffer; two cells of one colour at (x, y) and (x, y + s) are
\* emitted as two rectangles, one on each row.
C7_NoVerticalMerge ==
    DoneOk =>
        /\ \A k \in 1 .. Len(EmittedRects) :
             /\ EmittedRects[k].height = sampleRate
             /\ EmittedRects[k].y % sampleRate = 0
             /\ EmittedRects[k].y < canvas.height
        /\ \A sy \in SampleYs : \A sx \in SampleXs :
             (/\ sy + sampleRate < canvas.height
              /\ KeyAt(sx, sy) # ""
              /\ KeyAt(sx, sy) = KeyAt(sx, sy + sampleRate))
             => \E k \in 1 .. Len(EmittedRects), l \in 1 .. Len(EmittedRects) :
                  /\ k # l
                  /\ Covers(EmittedRects[k], sx, sy)
                  /\ Covers(EmittedRects[l], sx, sy + sampleRate)

\* at stride 2: two rectangles of one colour at x = 0, on rows 0 and s
C7_Witness ==
    /\ DoneOk
    /\ sampleRate = 2
    /\ \E k \in 1 .. Len(EmittedRects), l \in 1 .. Len(EmittedRects) :
         /\ EmittedRects[k].x = 0 /\ EmittedRects[k].y = 0
         /\ EmittedRects[l].x = 0 /\ EmittedRects[l].y = sampleRate
         /\ EmittedRects[k].fill = EmittedRects[l].fill

RECURSIVE WidthOf(_, _, _)
WidthOf(rects, color, k) ==
    IF k > Len(rects) THEN 0
    ELSE (IF rects[k].fill = color THEN rects[k].width ELSE 0) + WidthOf(rects, color, k + 1)

\* C8: a response exists exactly when the handler has ended, and then it is
\* the 400 error for a missing file, the 500 error when reading or decoding
\* threw, and otherwise the success whose svg is the whole document: every
\* colour processed, every cell of every colour accounted for.  An error
\* carries no svg.  Until it has ended the handler can always take a step.
C8_Outcomes ==
    /\ (pc = "done") <=> (response # NoResponse)
    /\ pc # "done" => ENABLED Next
    /\ pc = "done" =>
         /\ req.kind = "nofile" =>
              response = [status |-> 400, error |-> "No image file provided"]
         /\ req.kind \in {"badform", "corrupt"} =>
              response = [status |-> 500, error |-> "Failed to convert image"]
         /\ req.kind = "image" =>
              /\ DOMAIN response = {"status", "svg"}
              /\ response.status = 200
              /\ response.svg.width = req.img.w
              /\ response.svg.height = req.img.h
              /\ ci = Len(colorMap)
              /\ \A i \in 1 .. Len(colorMap) :
                   WidthOf(EmittedRects, colorMap[i].color, 1)
                     = Len(colorMap[i].rects) * sampleRate

C8_Witness == DoneOk /\ Len(colorMap) >= 2 /\ Len(EmittedRects) >= 3

\* C9 as claimed: whenever svg is set it is the conversion result of the
\* currently selected image.
C9_AsClaimed == svg # NoSvg => svg = SvgOf(image)

StrictlyAscending(rects) ==
    \A i \in 1 .. Len(rects) : \A j \in 1 .. Len(rects) :
        i < j => \/ rects[i].y < rects[j].y
                 \/ (rects[i].y = rects[j].y /\ rects[i].x < rects[j].x)

\* C10: during and after the scan every bucket is in strictly ascending (y, x)
\* order; every sort performed has left its bucket unchanged; and merging a
\* bucket as scanned gives the rectangles that merging it sorted gives.
C10_SortIsNoop ==
    pc \in {"scan", "group", "done"} =>
        /\ sortNoop
        /\ \A i \in 1 .. Len(colorMap) :
             /\ StrictlyAscending(colorMap[i].rects)
             /\ i > ci => optimizeRects(colorMap[i].rects)
                            = optimizeRects(SortRects(colorMap[i].rects))

\* all colours sorted, one of them holding cells of two rows that another
\* colour's cells separate in scan order
C10_Witness ==
    /\ pc = "group"
    /\ ci = Len(colorMap)
    /\ Len(colorMap) >= 2
    /\ sortNoop
    /\ \E i \in 1 .. Len(colorMap) :
         /\ Len(colorMap[i].rects) >= 3
         /\ colorMap[i].rects[1].y # colorMap[i].rects[Len(colorMap[i].rects)].y

====
